---- MODULE Spec2Model ----
(***************************************************************************)
(* A model of silicon's sqlite3 mapping layer (src/silicon/sqlite.hh):     *)
(* sqlite_database (connect, bind, operator()) and sqlite_statement        *)
(* (row_to_sio, operator>>, operator|, append_to, read_column), together   *)
(* with the part of the sqlite3 engine those methods call.                 *)
(*                                                                         *)
(* The caller is single-threaded: one operation runs at a time.  The loop  *)
(* of operator| is modelled one iteration per step.  The caller holds at   *)
(* most one statement (and its copies) at a time; statements of different  *)
(* handles share no state in this layer.                                   *)
(*                                                                         *)
(* Four specifications run the same actions over different inputs:         *)
(*   Spec       the program from sqlite_database(): handles and ownership  *)
(*   SpecFetch  one statement returned by execute: the cursor protocol     *)
(*   SpecMatch  one statement: operator>> into every record shape          *)
(*   SpecBind   a connected database: execute with every kind of argument  *)
(***************************************************************************)
EXTENDS Integers, Sequences, FiniteSets, TLC

\* ------------------------------------------------------------------ bounds

\* Largest number of result columns of a query.
MaxCols == 2
\* Largest number of result rows of a query.
MaxRows == 2
\* Largest number of positional arguments of one execute call, and of
\* placeholders of a query.
MaxArgs == 2
\* Number of prepared-statement handles the engine hands out in one run.
MaxStmts == 2
\* Number of database handles the engine hands out in one run.
MaxOpens == 2
\* Largest number of live copies of one statement wrapper, and of
\* sqlite_database objects sharing one handle.
MaxCopies == 2

\* ------------------------------------------------------------ engine codes

SQLITE_OK     == "SQLITE_OK"
SQLITE_ROW    == "SQLITE_ROW"
SQLITE_DONE   == "SQLITE_DONE"
SQLITE_ERROR  == "SQLITE_ERROR"
SQLITE_MISUSE == "SQLITE_MISUSE"
SQLITE_RANGE  == "SQLITE_RANGE"
SQLITE_CANTOPEN == "SQLITE_CANTOPEN"

\* ------------------------------------------------------------------ values

\* A value held by the engine or by a record field: a tag, a number and a
\* byte string.  Doubles are counted in halves (n = 5 is 2.5), so that a
\* conversion between integer and double is visible.
V(t, n, s) == [t |-> t, n |-> n, s |-> s]
NullV    == V("null", 0, <<>>)
IntV(n)  == V("int", n, <<>>)
RealV(h) == V("real", h, <<>>)
TextV(s) == V("text", 0, s)
\* A text parameter bound with a null destructor: the engine keeps the
\* caller's pointer and the length n, not the bytes.
PtrV(n)  == V("ptr", n, <<>>)

\* Truncation toward zero of h halves.
TruncHalves(h) == IF h >= 0 THEN h \div 2 ELSE -((-h) \div 2)

RECURSIVE Digits(_)
\* The decimal digits of n >= 0 as ASCII bytes.
Digits(n) == IF n < 10 THEN <<48 + n>> ELSE Digits(n \div 10) \o <<48 + (n % 10)>>

\* The engine's rendering of an integer as text.
IntToText(n) == IF n < 0 THEN <<45>> \o Digits(-n) ELSE Digits(n)

\* The engine's rendering of a double (in halves) as text: "2.5", "3.0".
RealToText(h) ==
  LET a == IF h < 0 THEN -h ELSE h
  IN  (IF h < 0 THEN <<45>> ELSE <<>>) \o Digits(a \div 2) \o <<46>>
        \o (IF a % 2 = 1 THEN <<53>> ELSE <<48>>)

IsDigit(b) == b >= 48 /\ b <= 57

RECURSIVE ParseDigits(_, _)
\* The value of the longest prefix of decimal digits of s, after acc.
ParseDigits(s, acc) ==
  IF s = <<>> \/ ~IsDigit(Head(s)) THEN acc
  ELSE ParseDigits(Tail(s), acc * 10 + (Head(s) - 48))

\* The engine's numeric reading of a text: its leading integer, else 0.
TextToInt(s) ==
  IF s # <<>> /\ Head(s) = 45 THEN -ParseDigits(Tail(s), 0) ELSE ParseDigits(s, 0)

\* sqlite3_column_int / sqlite3_column_int64 on a stored value.  Every integer
\* of the model fits 32 bits, so the 32-bit truncation of sqlite3_column_int
\* changes none of them.
column_int(v) ==
  CASE v.t = "int"  -> v.n
    [] v.t = "real" -> TruncHalves(v.n)
    [] v.t = "text" -> TextToInt(v.s)
    [] OTHER        -> 0

\* sqlite3_column_double on a stored value, in halves.
column_double(v) ==
  CASE v.t = "int"  -> 2 * v.n
    [] v.t = "real" -> v.n
    [] v.t = "text" -> 2 * TextToInt(v.s)
    [] OTHER        -> 0

\* sqlite3_column_text with sqlite3_column_bytes on a stored value.
column_text(v) ==
  CASE v.t = "int"  -> IntToText(v.n)
    [] v.t = "real" -> RealToText(v.n)
    [] v.t = "text" -> v.s
    [] OTHER        -> <<>>

\* The scalar types a record field can have (the read_column overloads).
FieldTypes == {"int", "int64", "double", "text"}

\* read_column(pos, v): the value assigned to a field of type ty from the
\* engine value v of column pos.
read_column(v, ty) ==
  CASE ty = "int"    -> IntV(column_int(v))
    [] ty = "int64"  -> IntV(column_int(v))
    [] ty = "double" -> RealV(column_double(v))
    [] OTHER         -> TextV(column_text(v))

\* --------------------------------------------------------- inputs' domains

\* Names a result column can have; "x" is the name of no record field.
ColNames == {"a", "b", "x"}
\* Names a record field can have.
FieldNames == {"a", "b"}

\* All sequences over S of length at most n.
SeqsUpTo(S, n) == UNION {[1..k -> S] : k \in 0..n}

\* A query as the engine sees it: its result column names, its number of
\* result rows and its number of placeholders.  Column c of every row shows
\* placeholder c when there is one (SELECT ?1 AS a, ...), and the table's
\* cell otherwise.  A statement without columns has no rows.
Queries ==
  {q \in [cols : SeqsUpTo(ColNames, MaxCols), nrows : 0..MaxRows, nparams : 0..MaxArgs] :
     q.cols = <<>> => q.nrows = 0}

\* Record shapes (the A... of iod::sio<A...>): fields of distinct names, in
\* declaration order, each of a scalar type.
Field(name, ty) == [name |-> name, ty |-> ty]
Shapes ==
  {sh \in SeqsUpTo([name : FieldNames, ty : FieldTypes], Cardinality(FieldNames)) :
     /\ sh # <<>>
     /\ \A i, j \in 1..Len(sh) : i # j => sh[i].name # sh[j].name}

\* The byte strings a caller passes; one has an embedded null byte.
TextVals == {<<65, 0, 66>>, <<67, 68, 69>>}
\* What a read through a dangling pointer can find.
JunkVals == TextVals \cup {<<0, 0, 0>>}

\* An argument of execute: its value and, for a text, whether the caller's
\* std::string is a temporary of the call expression.
Arg(v, tmp) == [v |-> v, tmp |-> tmp]
ArgVals ==
  {Arg(IntV(42), FALSE), Arg(RealV(5), FALSE)}
    \cup {Arg(TextV(s), tmp) : s \in {<<65, 0, 66>>}, tmp \in BOOLEAN}

\* ------------------------------------------------------------------- state

VARIABLES
  autoreset,  \* engine build: sqlite3_step resets a halted statement itself
  db_,        \* sqlite_database::db_ : 0 (nullptr) or a database handle
  db_sptr_,   \* sqlite_database::db_sptr_ : 0 (empty) or the owned handle
  own,        \* use count of the db_sptr that owns each database handle
  conn,       \* the sqlite_database object: "alive" or "destroyed"
  dbh,        \* engine: state of each database handle
  hs,         \* engine: state of each prepared-statement handle
  st,         \* the statement the caller holds (stmt_ and the engine's cursor)
  refs,       \* use count of stmt_sptr_: live copies of the held statement
  bufs,       \* the caller's text argument objects of the held statement
  pc,         \* "idle", "loop" (inside operator|) or "aborted"
  res         \* the operation in progress or last completed

vars == <<autoreset, db_, db_sptr_, own, conn, dbh, hs, st, refs, bufs, pc, res>>

\* An exception as the caller catches it.
Exc(what, detail) == [type |-> "std::runtime_error", what |-> what, detail |-> detail]
NoExc == [type |-> "none", what |-> "", detail |-> ""]

NoStmt ==
  [h |-> 0, db |-> 0, cols |-> <<>>, nrows |-> 0, nparams |-> 0, binds |-> <<>>,
   args |-> <<>>, cursor |-> 0]

NoHandle == [status |-> "none", fin |-> 0, wrapped |-> FALSE, db |-> 0]

NoBuf == [live |-> "none", s |-> <<>>]

\* Cursor values: 0 not started, 1..nrows on that row, Exhausted(s) after
\* SQLITE_DONE, Errored after an engine error.
Exhausted(s) == s.nrows + 1
Errored == 0 - 1

NoRow == [o |-> <<>>, w |-> <<>>, src |-> <<>>, idx |-> {}, oobR |-> FALSE, oobW |-> FALSE]

NoRes ==
  [op |-> "none", outcome |-> "none", exc |-> NoExc, code |-> "", h |-> 0,
   shape |-> <<>>, start |-> 0, errSeen |-> FALSE, init |-> <<>>, row |-> NoRow,
   nvisits |-> 0, last |-> [row |-> 0, r |-> NoRow], prev |-> <<>>, vec0 |-> <<>>,
   vec |-> <<>>, args |-> <<>>, nbinds |-> 0, nparams |-> 0, newh |-> 0,
   fault |-> ""]

\* ------------------------------------------------------------------ engine

\* As if a step went two rows ahead.
sqlite3_step_skipping(s, fail, auto) ==
  LET halted == s.cursor = Exhausted(s) \/ s.cursor = Errored
      from   == IF halted THEN 0 ELSE s.cursor
  IN  IF halted /\ ~auto THEN [code |-> SQLITE_MISUSE, cursor |-> s.cursor]
      ELSE IF fail THEN [code |-> SQLITE_ERROR, cursor |-> Errored]
      ELSE IF from + 1 < s.nrows THEN [code |-> SQLITE_ROW, cursor |-> from + 2]
      ELSE [code |-> SQLITE_DONE, cursor |-> Exhausted(s)]

\* sqlite3_step on statement s.  fail: the engine reports an error in this
\* step (SQLITE_BUSY, SQLITE_IOERR, ...).  A statement that has already
\* halted (SQLITE_DONE or an error) and is stepped again without
\* sqlite3_reset is reset by sqlite3_step itself and runs from its first row
\* again; an engine built with SQLITE_OMIT_AUTORESET answers SQLITE_MISUSE
\* instead.  The result is the code and the new cursor.
sqlite3_step(s, fail, auto) ==
  LET halted == s.cursor = Exhausted(s) \/ s.cursor = Errored
      from   == IF halted THEN 0 ELSE s.cursor
  IN  IF halted /\ ~auto THEN [code |-> SQLITE_MISUSE, cursor |-> s.cursor]
      ELSE IF fail THEN [code |-> SQLITE_ERROR, cursor |-> Errored]
      ELSE IF from < s.nrows THEN [code |-> SQLITE_ROW, cursor |-> from + 1]
      ELSE [code |-> SQLITE_DONE, cursor |-> Exhausted(s)]

\* The bytes the engine finds behind the pointer bound at placeholder c: the
\* caller's string as it is now, or junk when the string is gone.
Deref(b, buf, junk) ==
  IF buf.live = "alive" THEN SubSeq(buf.s, 1, b.n) ELSE SubSeq(junk, 1, b.n)

\* The engine's value of column c (1-based) of row r of statement s.
Cell(s, r, c, bf, junk) ==
  IF c <= s.nparams
    THEN LET b == s.binds[c]
         IN  IF b.t = "ptr" THEN TextV(Deref(b, bf[c], junk)) ELSE b
    ELSE IntV(10 * r + c)

\* sqlite3_finalize(h) on the engine's handle table: the handle is
\* finalized; a database closed with sqlite3_close_v2 while it still had
\* statements goes away with its last statement.
sqlite3_finalize(H, h) ==
  [H EXCEPT ![h] = [@ EXCEPT !.status = "finalized", !.fin = @ + 1]]

\* Statements of database d that are prepared and not finalized.
OpenStmts(H, d) == {h \in DOMAIN H : H[h].status = "prepared" /\ H[h].db = d}

\* sqlite3_close_v2(d): closes d, or leaves it a zombie until its last
\* statement is finalized.  A handle already passed to it is gone, and
\* passing it again is a use after free.
sqlite3_close_v2(D, H, d) ==
  [D EXCEPT ![d] = IF @ \in {"closed", "zombie", "closed twice"} THEN "closed twice"
                   ELSE IF OpenStmts(H, d) = {} THEN "closed" ELSE "zombie"]

\* The database table after the statement table became H: zombies without
\* statements are closed.
ReapZombies(D, H) ==
  [d \in DOMAIN D |-> IF D[d] = "zombie" /\ OpenStmts(H, d) = {} THEN "closed" ELSE D[d]]

\* --------------------------------------------------------- record matching

\* A default-constructed record of shape sh (T o;).
DefaultValue(ty) ==
  CASE ty = "text" -> TextV(<<>>)
    [] ty = "double" -> RealV(0)
    [] OTHER -> IntV(0)
DefaultRecord(sh) == [k \in 1..Len(sh) |-> DefaultValue(sh[k].ty)]

\* A record whose every field holds a value no column read produces: what a
\* caller or a visitor wrote into it.
MarkedValue(ty) ==
  CASE ty = "text" -> TextV(<<33>>)
    [] ty = "double" -> RealV(-1)
    [] OTHER -> IntV(-1)
MarkedRecord(sh) == [k \in 1..Len(sh) |-> MarkedValue(sh[k].ty)]

\* As if the result of strcmp were not looked at: the first field takes
\* every column.
FirstFieldAnyName(sh, cname, k) == IF k > Len(sh) THEN 0 ELSE k

\* As if a column that names no field were stored in the first field.
FirstFieldOrFirst(sh, cname, k) ==
  IF \E j \in k..Len(sh) : sh[j].name = cname
    THEN CHOOSE j \in k..Len(sh) : sh[j].name = cname
    ELSE IF k > Len(sh) THEN 0 ELSE k

\* Index of the first field of sh named cname, 0 when there is none
\* (foreach(o) visits the fields in declaration order).
RECURSIVE FirstField(_, _, _)
FirstField(sh, cname, k) ==
  IF k > Len(sh) THEN 0
  ELSE IF sh[k].name = cname THEN k
  ELSE FirstField(sh, cname, k + 1)

\* filled[i] for the 0-based column index i = c - 1 is inside the array
\* int filled[sizeof...(A)] only when c <= Len(sh).
InBounds(sh, c) == c <= Len(sh)

\* The body of the column loop of row_to_sio for column c (1-based), on the
\* state acc = [o, w, src, filled, idx, oobR, oobW].  g[c] is what a read of
\* filled[c - 1] outside the array finds (TRUE: nonzero).
ColumnStep(acc, sh, s, bf, junk, g, c) ==
  LET k      == FirstField(sh, s.cols[c], 1)
      inb    == InBounds(sh, c)
      isSet  == IF inb THEN acc.filled[c] = 1 ELSE g[c]
      hit    == k # 0 /\ ~isSet
      val    == read_column(Cell(s, s.cursor, c, bf, junk), sh[k].ty)
  IN  [o      |-> IF hit THEN [acc.o EXCEPT ![k] = val] ELSE acc.o,
       w      |-> IF hit THEN [acc.w EXCEPT ![k] = @ + 1] ELSE acc.w,
       src    |-> IF hit THEN [acc.src EXCEPT ![k] = c] ELSE acc.src,
       filled |-> IF hit /\ inb THEN [acc.filled EXCEPT ![c] = 1] ELSE acc.filled,
       idx    |-> acc.idx \cup {c - 1},
       oobR   |-> acc.oobR \/ ~inb,
       oobW   |-> acc.oobW \/ (hit /\ ~inb)]

RECURSIVE ColumnLoop(_, _, _, _, _, _, _)
ColumnLoop(acc, sh, s, bf, junk, g, c) ==
  IF c > Len(s.cols) THEN acc
  ELSE ColumnLoop(ColumnStep(acc, sh, s, bf, junk, g, c), sh, s, bf, junk, g, c + 1)

\* row_to_sio(o) on the current row of s.  The result gives the record (o),
\* how often each field was written (w), the column each field was last
\* written from (src), the 0-based indexes used on filled (idx) and whether
\* filled was read (oobR) or written (oobW) outside its bounds.
row_to_sio(o, sh, s, bf, junk, g) ==
  LET acc0 == [o |-> o, w |-> [k \in 1..Len(sh) |-> 0], src |-> [k \in 1..Len(sh) |-> 0],
               filled |-> [k \in 1..Len(sh) |-> 0], idx |-> {}, oobR |-> FALSE,
               oobW |-> FALSE]
      r    == ColumnLoop(acc0, sh, s, bf, junk, g, 1)
  IN  [o |-> r.o, w |-> r.w, src |-> r.src, idx |-> r.idx, oobR |-> r.oobR,
       oobW |-> r.oobW]

\* ------------------------------------------------------------ the program

DbIds   == 1..MaxOpens
StmtIds == 1..MaxStmts
ArgPos  == 1..MaxArgs

\* The state after sqlite_database(): db_ is nullptr, db_sptr_ is empty.
Init ==
  /\ autoreset \in BOOLEAN
  /\ db_ = 0
  /\ db_sptr_ = 0
  /\ own = [d \in DbIds |-> 0]
  /\ conn = "alive"
  /\ dbh = [d \in DbIds |-> "none"]
  /\ hs = [h \in StmtIds |-> NoHandle]
  /\ st = NoStmt
  /\ refs = 0
  /\ bufs = [i \in ArgPos |-> NoBuf]
  /\ pc = "idle"
  /\ res = NoRes

\* The handle the engine hands out next: 0 when the run's supply is used up.
NextDb ==
  IF \E d \in DbIds : dbh[d] = "none"
    THEN CHOOSE d \in DbIds : dbh[d] = "none" /\ \A e \in DbIds : e < d => dbh[e] # "none"
    ELSE 0
NextStmt ==
  IF \E h \in StmtIds : hs[h].status = "none"
    THEN CHOOSE h \in StmtIds :
           hs[h].status = "none" /\ \A e \in StmtIds : e < h => hs[e].status # "none"
    ELSE 0

\* A db_sptr that owns handle d (0: an empty one) is reset or destroyed: the
\* use count of d drops, and the deleter free_sqlite3_db closes d when no
\* other copy is left.
ReleaseCount(O, d) == IF d = 0 THEN O ELSE [O EXCEPT ![d] = @ - 1]
ReleaseHandle(O, D, H, d) ==
  IF d # 0 /\ ReleaseCount(O, d)[d] = 0 THEN sqlite3_close_v2(D, H, d) ELSE D

\* sqlite_database::connect.  r is the result of sqlite3_open_v2; on a
\* failure the engine still stores a handle in db_ (got) unless it could not
\* allocate one.  On success db_sptr_ takes the new handle and gives up its
\* share of the one it held (free_sqlite3_db closes it with the last share).
connect(r, got) ==
  /\ pc = "idle"
  /\ conn = "alive"
  /\ NextDb # 0
  /\ r = SQLITE_OK => got
  /\ LET d == NextDb
     IN  IF r # SQLITE_OK
           THEN /\ db_' = IF got THEN d ELSE 0
                /\ dbh' = IF got THEN [dbh EXCEPT ![d] = "sick"] ELSE dbh
                /\ db_sptr_' = db_sptr_
                /\ own' = own
                /\ res' = [NoRes EXCEPT !.op = "connect", !.outcome = "threw",
                                        !.exc = Exc("Cannot open database ", r)]
           ELSE /\ db_' = d
                /\ db_sptr_' = d
                /\ own' = [ReleaseCount(own, db_sptr_) EXCEPT ![d] = 1]
                /\ dbh' = ReleaseHandle(own, [dbh EXCEPT ![d] = "open"], hs, db_sptr_)
                /\ res' = [NoRes EXCEPT !.op = "connect", !.outcome = "returned"]
  /\ UNCHANGED <<autoreset, conn, hs, st, refs, bufs, pc>>

\* A copy of the sqlite_database is made (the copy shares db_sptr_); the
\* model follows the original and counts the copies.  A copy of an object
\* that owns nothing owns nothing.
CopyDatabase ==
  /\ pc = "idle"
  /\ conn = "alive"
  /\ db_sptr_ # 0
  /\ own[db_sptr_] < MaxCopies
  /\ own' = [own EXCEPT ![db_sptr_] = @ + 1]
  /\ res' = [NoRes EXCEPT !.op = "copy database", !.outcome = "returned"]
  /\ UNCHANGED <<autoreset, db_, db_sptr_, conn, dbh, hs, st, refs, bufs, pc>>

\* A copy that shares handle d is destroyed.
DestroyCopy(d) ==
  /\ pc = "idle"
  /\ own[d] > (IF conn = "alive" /\ db_sptr_ = d THEN 1 ELSE 0)
  /\ own' = ReleaseCount(own, d)
  /\ dbh' = ReleaseHandle(own, dbh, hs, d)
  /\ res' = [NoRes EXCEPT !.op = "destroy copy", !.outcome = "returned"]
  /\ UNCHANGED <<autoreset, db_, db_sptr_, conn, hs, st, refs, bufs, pc>>

\* The sqlite_database itself is destroyed: its members go, db_sptr_ gives
\* up its share.  The raw db_ is a plain pointer and closes nothing.
DestroyDatabase ==
  /\ pc = "idle"
  /\ conn = "alive"
  /\ conn' = "destroyed"
  /\ db_' = 0
  /\ db_sptr_' = 0
  /\ own' = ReleaseCount(own, db_sptr_)
  /\ dbh' = ReleaseHandle(own, dbh, hs, db_sptr_)
  /\ res' = [NoRes EXCEPT !.op = "destroy database", !.outcome = "returned"]
  /\ UNCHANGED <<autoreset, hs, st, refs, bufs, pc>>

\* sqlite_database::bind for one argument: what the engine stores.  A text is
\* bound with its data pointer, its size and a null destructor.
bind(a) == IF a.v.t = "text" THEN PtrV(Len(a.v.s)) ELSE a.v

\* The result of the engine's bind call at position i of a statement with
\* nparams placeholders.
BindCode(i, nparams) == IF i <= nparams THEN SQLITE_OK ELSE SQLITE_RANGE

\* Position of the first argument the engine rejects, 0 when it takes all
\* k (the foreach over the arguments stops at the first throw).
RECURSIVE FirstRejected(_, _, _)
FirstRejected(i, k, nparams) ==
  IF i > k THEN 0
  ELSE IF BindCode(i, nparams) # SQLITE_OK THEN i
  ELSE FirstRejected(i + 1, k, nparams)

\* The result of sqlite3_prepare_v2 against handle d in database table D.
PrepareCode(D, d, sqlok) ==
  IF d = 0 \/ D[d] # "open" THEN SQLITE_MISUSE
  ELSE IF ~sqlok THEN SQLITE_ERROR
  ELSE SQLITE_OK

\* As if a failed sqlite3_prepare_v2 had allocated the statement all the same.
PrepareFailedLeavesHandle(H, h, d) ==
  [H EXCEPT ![h] = [status |-> "prepared", fin |-> 0, wrapped |-> FALSE, db |-> d]]

\* The engine's handle table after sqlite3_prepare_v2 failed: *ppStmt is
\* set to NULL and no statement exists.
PrepareFailed(H, h, d) == H

\* The engine's handle table after sqlite3_prepare_v2 gave out handle h on d.
Prepared(H, h, d) ==
  [H EXCEPT ![h] = [status |-> "prepared", fin |-> 0, wrapped |-> FALSE, db |-> d]]

\* sqlite_statement's constructor on handle h: stmt_ and a stmt_sptr_ with
\* use count 1 that owns h.
WrapStatement(H, h) == [H EXCEPT ![h].wrapped = TRUE]

\* As if the position were not advanced (i++ missing): every argument is
\* bound at position 1, the last one stays.
StatementBoundAtOne(h, d, q, args) ==
  [h |-> h, db |-> d, cols |-> q.cols, nrows |-> q.nrows, nparams |-> q.nparams,
   binds |-> [i \in 1..q.nparams |->
                IF i = 1 /\ Len(args) >= 1 THEN bind(args[Len(args)]) ELSE NullV],
   args |-> [i \in 1..Len(args) |-> args[i].v],
   cursor |-> 0]

\* The statement execute returns for query q after binding args: stmt_ = h
\* with the engine's bindings and a cursor that has not started.  args (the
\* values as they were passed) is kept for stating properties; the engine
\* holds binds.
Statement(h, d, q, args) ==
  [h |-> h, db |-> d, cols |-> q.cols, nrows |-> q.nrows, nparams |-> q.nparams,
   binds |-> [i \in 1..q.nparams |-> IF i <= Len(args) THEN bind(args[i]) ELSE NullV],
   args |-> [i \in 1..Len(args) |-> args[i].v],
   cursor |-> 0]

\* The caller's argument objects once execute has returned: a temporary
\* std::string is gone, a named one lives on.
ArgObjects(args) ==
  [i \in ArgPos |->
     IF i <= Len(args) /\ args[i].v.t = "text"
       THEN [live |-> IF args[i].tmp THEN "freed" ELSE "alive", s |-> args[i].v.s]
       ELSE NoBuf]

\* sqlite_database::operator(): prepare req, bind args left to right from
\* position 1, return the wrapped statement.  sqlok: the engine accepts the
\* SQL text.
op_call(q, args, sqlok) ==
  /\ pc = "idle"
  /\ conn = "alive"
  /\ st.h = 0
  /\ NextStmt # 0
  /\ LET err == PrepareCode(dbh, db_, sqlok)
         h   == NextStmt
         k   == Len(args)
         bad == FirstRejected(1, k, q.nparams)
     IN  IF err # SQLITE_OK
           THEN /\ res' = [NoRes EXCEPT !.op = "execute", !.outcome = "threw",
                                        !.exc = Exc("Sqlite error during prepare: ", err),
                                        !.args = args]
                /\ hs' = PrepareFailed(hs, h, db_)
                /\ UNCHANGED <<st, refs, bufs>>
         ELSE IF bad # 0
           THEN /\ hs' = Prepared(hs, h, db_)
                /\ res' = [NoRes EXCEPT !.op = "execute", !.outcome = "threw",
                                        !.exc = Exc("Sqlite error during binding: ",
                                                    BindCode(bad, q.nparams)),
                                        !.args = args, !.nbinds = bad, !.newh = h,
                                        !.nparams = q.nparams]
                /\ UNCHANGED <<st, refs, bufs>>
         ELSE /\ hs' = WrapStatement(Prepared(hs, h, db_), h)
              /\ st' = Statement(h, db_, q, args)
              /\ refs' = 1
              /\ bufs' = ArgObjects(args)
              /\ res' = [NoRes EXCEPT !.op = "execute", !.outcome = "returned",
                                      !.args = args, !.nbinds = k, !.newh = h, !.h = h,
                                      !.nparams = q.nparams]
  /\ UNCHANGED <<autoreset, own, conn, db_, db_sptr_, dbh, pc>>

\* As if every wrapper finalized stmt_ in its own destructor.
DeleterRunsPerCopy(count) == TRUE

\* The deleter of stmt_sptr_ (free_sqlite3_statement) runs when the use
\* count reaches zero.
DeleterRuns(count) == count = 0

\* A copy of the held sqlite_statement is made: stmt_ is copied and
\* stmt_sptr_ shared.
CopyStatement ==
  /\ pc = "idle"
  /\ st.h # 0
  /\ refs < MaxCopies
  /\ refs' = refs + 1
  /\ res' = [NoRes EXCEPT !.op = "copy", !.outcome = "returned", !.h = st.h]
  /\ UNCHANGED <<autoreset, own, conn, db_, db_sptr_, dbh, hs, st, bufs, pc>>

\* A copy of the held sqlite_statement is destroyed; the last one takes the
\* prepared statement with it (free_sqlite3_statement).
DestroyStatement ==
  /\ pc = "idle"
  /\ st.h # 0
  /\ refs' = refs - 1
  /\ LET H == IF DeleterRuns(refs') THEN sqlite3_finalize(hs, st.h) ELSE hs
     IN  /\ hs' = H
         /\ dbh' = ReapZombies(dbh, H)
  /\ IF refs' = 0
       THEN st' = NoStmt /\ bufs' = [i \in ArgPos |-> NoBuf]
       ELSE UNCHANGED <<st, bufs>>
  /\ res' = [NoRes EXCEPT !.op = "destroy", !.outcome = "returned", !.h = st.h]
  /\ UNCHANGED <<autoreset, own, conn, db_, db_sptr_, pc>>

\* The caller assigns new bytes to the string object it passed to execute.
MutateArg(i, s) ==
  /\ pc = "idle"
  /\ bufs[i].live = "alive"
  /\ s # bufs[i].s
  /\ Len(s) = Len(bufs[i].s)
  /\ bufs' = [bufs EXCEPT ![i].s = s]
  /\ res' = [NoRes EXCEPT !.op = "mutate", !.outcome = "returned", !.h = st.h]
  /\ UNCHANGED <<autoreset, own, conn, db_, db_sptr_, dbh, hs, st, refs, pc>>

\* The string object the caller passed to execute goes out of scope.
DestroyArg(i) ==
  /\ pc = "idle"
  /\ bufs[i].live = "alive"
  /\ bufs' = [bufs EXCEPT ![i].live = "freed"]
  /\ res' = [NoRes EXCEPT !.op = "release", !.outcome = "returned", !.h = st.h]
  /\ UNCHANGED <<autoreset, own, conn, db_, db_sptr_, dbh, hs, st, refs, pc>>

\* ------------------------------------------------------------ row fetching

\* What reads of filled[] outside its bounds can find, per column: only the
\* columns beyond the record's field count are read outside.
Garbage(sh, s) ==
  {g \in [1..Len(s.cols) -> BOOLEAN] : \A c \in 1..Len(s.cols) : InBounds(sh, c) => ~g[c]}

\* What a read through a bound text pointer can find: junk matters only when
\* a bound string is gone.
Junk(s, bf) ==
  IF \E c \in 1..s.nparams : s.binds[c].t = "ptr" /\ bf[c].live # "alive"
    THEN JunkVals ELSE {<<0, 0, 0>>}

\* Whether a write of filled[] outside its bounds brings the process down
\* (it lands on the stack protector's guard or on the frame), or is lucky.
Smash(r) == IF r.oobW THEN BOOLEAN ELSE {FALSE}

\* As if operator>> threw on engine errors only and took SQLITE_DONE for a row.
StepThrowsOnErrorOnly(code) == code \notin {SQLITE_ROW, SQLITE_DONE}

\* Whether operator>> throws after a step that returned code.
StepThrows(code) == code # SQLITE_ROW

\* What operator>> throws then: the same std::runtime_error with the same
\* text whatever the code was.
StepException(code) == Exc("sqlite3_step did not return SQLITE_ROW.", "")

\* operator>> on the caller's record o of shape sh: one sqlite3_step;
\* anything but SQLITE_ROW throws; otherwise the row is matched into o.  The
\* function is declared int and ends without a return statement: having
\* filled the record it is either left normally (ret) or the process dies
\* there.
op_rshift(sh, o, fail) ==
  /\ pc = "idle"
  /\ st.h # 0
  /\ LET sr == sqlite3_step(st, fail, autoreset)
         s1 == [st EXCEPT !.cursor = sr.cursor]
         base == [NoRes EXCEPT !.op = "fetchOne", !.h = st.h, !.shape = sh,
                               !.start = st.cursor, !.code = sr.code,
                               !.errSeen = sr.code \notin {SQLITE_ROW, SQLITE_DONE}]
     IN  /\ st' = s1
         /\ IF StepThrows(sr.code)
              THEN /\ res' = [base EXCEPT !.outcome = "threw",
                                                  !.exc = StepException(sr.code)]
                   /\ pc' = pc
              ELSE \E g \in Garbage(sh, s1), junk \in Junk(s1, bufs), ret \in BOOLEAN :
                     LET r == row_to_sio(o, sh, s1, bufs, junk, g)
                     IN  \E smash \in Smash(r) :
                           IF smash \/ ~ret
                             THEN /\ pc' = "aborted"
                                  /\ res' = [base EXCEPT
                                       !.outcome = "aborted", !.init = o,
                                       !.fault = IF smash THEN "overrun" ELSE "no return"]
                             ELSE /\ pc' = pc
                                  /\ res' = [base EXCEPT !.outcome = "returned",
                                                         !.init = o, !.row = r]
  /\ UNCHANGED <<autoreset, own, conn, db_, db_sptr_, dbh, hs, refs, bufs>>

\* As if T o; were declared before the loop: one object for all rows.
HoistedRecord(sh, prev) == IF prev = <<>> THEN DefaultRecord(sh) ELSE prev

\* The record operator| passes to row_to_sio in one iteration: T o; declared
\* in the loop body, so default-constructed anew each time.  prev is the
\* object of the previous iteration as the visitor left it.
FreshRecord(sh, prev) == DefaultRecord(sh)

\* As if append_to assigned the sequence instead of appending to it.
push_only(v, o) == <<o>>

\* The visitor of append_to on the caller's sequence v: v.push_back(o).
push_back(v, o) == Append(v, o)

\* Whether operator| runs its loop body after a step that returned code.
LoopContinues(code) == code = SQLITE_ROW

\* operator| is entered with visitor f, whose parameter type gives the shape.
\* append_to enters it with the visitor that pushes each record onto v,
\* which holds vec0 on entry.
op_pipe(sh, op, vec0) ==
  /\ pc = "idle"
  /\ st.h # 0
  /\ op = "forEach" => vec0 = <<>>
  /\ pc' = "loop"
  /\ res' = [NoRes EXCEPT !.op = op, !.outcome = "running", !.h = st.h, !.shape = sh,
                          !.start = st.cursor, !.vec0 = vec0, !.vec = vec0]
  /\ UNCHANGED <<autoreset, own, conn, db_, db_sptr_, dbh, hs, st, refs, bufs>>

\* One evaluation of the loop condition of operator| and, when the step gave
\* a row, one run of its body: a fresh record, row_to_sio, the visitor.  The
\* visitor receives the record by reference and may write to it (scribble);
\* the visitor of append_to copies it onto the sequence.  res counts the
\* visitor's invocations (nvisits) and keeps the latest (last).
LoopStep(fail, scribble) ==
  /\ scribble => res.op = "forEach"
  /\ pc = "loop"
  /\ LET sr == sqlite3_step(st, fail, autoreset)
         s1 == [st EXCEPT !.cursor = sr.cursor]
         sh == res.shape
     IN  /\ st' = s1
         /\ IF ~LoopContinues(sr.code)
              THEN /\ pc' = "idle"
                   /\ res' = [res EXCEPT !.outcome = "returned", !.code = sr.code,
                                !.errSeen = sr.code \notin {SQLITE_ROW, SQLITE_DONE}]
              ELSE \E g \in Garbage(sh, s1), junk \in Junk(s1, bufs) :
                     LET r == row_to_sio(FreshRecord(sh, res.prev), sh, s1, bufs, junk, g)
                     IN  \E smash \in Smash(r) :
                           IF smash
                             THEN /\ pc' = "aborted"
                                  /\ res' = [res EXCEPT !.outcome = "aborted",
                                                        !.fault = "overrun"]
                             ELSE /\ pc' = pc
                                  /\ res' = [res EXCEPT
                                       !.code = sr.code,
                                       !.nvisits = @ + 1,
                                       !.last = [row |-> s1.cursor, r |-> r],
                                       !.prev = IF scribble THEN MarkedRecord(sh) ELSE r.o,
                                       !.vec = IF res.op = "append_to"
                                                 THEN push_back(@, r.o) ELSE @]
  /\ UNCHANGED <<autoreset, own, conn, db_, db_sptr_, dbh, hs, refs, bufs>>

\* The sequences append_to is handed: empty, or holding one element.
Vecs(sh) == {<<>>, <<MarkedRecord(sh)>>}

\* ---------------------------------------------------------- specifications

\* Spec: the program from the construction of a sqlite_database.  Which
\* handles exist and who owns them does not depend on column names or field
\* types, so queries have the one column "a" and no row or one, records
\* the one int field "a", and execute is called with no argument or with
\* one int, for a query of no placeholder or one; copies, the cursor and
\* failures vary.
LifeQueries == {q \in Queries : q.cols = <<"a">> /\ q.nrows <= 1 /\ q.nparams <= 1}
LifeArgs    == {Arg(IntV(42), FALSE)}
LifeArgSeqs == {<<>>} \cup {<<a>> : a \in LifeArgs}
LifeShape   == <<Field("a", "int")>>

Next ==
  \/ \E r \in {SQLITE_OK, SQLITE_CANTOPEN}, got \in BOOLEAN : connect(r, got)
  \/ \E q \in LifeQueries, args \in LifeArgSeqs, sqlok \in BOOLEAN :
       op_call(q, args, sqlok)
  \/ CopyStatement
  \/ DestroyStatement
  \/ \E fail \in BOOLEAN : op_rshift(LifeShape, DefaultRecord(LifeShape), fail)
  \/ \E op \in {"forEach", "append_to"} : op_pipe(LifeShape, op, <<>>)
  \/ \E fail \in BOOLEAN : LoopStep(fail, FALSE)

Spec == Init /\ [][Next]_vars

\* SpecConn: the lifetime of the sqlite_database: connect calls that succeed
\* or fail, copies of the object, their destruction and its own, with one
\* statement executed, fetched from and destroyed along the way.
ConnQueries == {q \in LifeQueries : q.nparams = 0 /\ q.nrows = 1}

NextConn ==
  \/ \E r \in {SQLITE_OK, SQLITE_CANTOPEN}, got \in BOOLEAN : connect(r, got)
  \/ CopyDatabase
  \/ \E d \in DbIds : DestroyCopy(d)
  \/ DestroyDatabase
  \/ \E q \in ConnQueries, sqlok \in BOOLEAN : op_call(q, <<>>, sqlok)
  \/ op_rshift(LifeShape, DefaultRecord(LifeShape), FALSE)
  \/ DestroyStatement

SpecConn == Init /\ [][NextConn]_vars

\* The state in which execute has just returned the statement of query q,
\* bound to args, on a database opened by connect: the state Spec reaches by
\* connect(SQLITE_OK, TRUE) and op_call(q, args, TRUE).
Returned(q, args) ==
  /\ autoreset \in BOOLEAN
  /\ db_ = 1
  /\ db_sptr_ = 1
  /\ own = [d \in DbIds |-> IF d = 1 THEN 1 ELSE 0]
  /\ conn = "alive"
  /\ dbh = [d \in DbIds |-> IF d = 1 THEN "open" ELSE "none"]
  /\ hs = WrapStatement(Prepared([h \in StmtIds |-> NoHandle], 1, 1), 1)
  /\ st = Statement(1, 1, q, args)
  /\ refs = 1
  /\ bufs = ArgObjects(args)
  /\ pc = "idle"
  /\ res = [NoRes EXCEPT !.op = "execute", !.outcome = "returned", !.args = args,
                         !.nbinds = Len(args), !.newh = 1, !.h = 1,
                         !.nparams = q.nparams]

\* SpecFetch: one statement without placeholders, of any column names and
\* row count, consumed by operator>>, operator| and append_to into records
\* of int fields.
FetchQueries == {q \in Queries : q.nparams = 0}
IntShapes    == {sh \in Shapes : \A k \in 1..Len(sh) : sh[k].ty = "int"}

InitFetch == \E q \in FetchQueries : Returned(q, <<>>)

NextFetch ==
  \/ \E sh \in IntShapes, fail \in BOOLEAN : op_rshift(sh, MarkedRecord(sh), fail)
  \/ \E sh \in IntShapes, op \in {"forEach", "append_to"} :
       \E vec0 \in Vecs(sh) : op_pipe(sh, op, vec0)
  \/ \E fail, scribble \in BOOLEAN : LoopStep(fail, scribble)

SpecFetch == InitFetch /\ [][NextFetch]_vars

\* SpecMatch: one statement without placeholders and with at most one row,
\* fetched by operator>> into records of every shape, fresh or already
\* written by the caller; the engine reports no error.
MatchQueries == {q \in FetchQueries : q.nrows <= 1}

InitMatch == \E q \in MatchQueries : Returned(q, <<>>)

NextMatch ==
  \E sh \in Shapes : \E o \in {DefaultRecord(sh), MarkedRecord(sh)} : op_rshift(sh, o, FALSE)

SpecMatch == InitMatch /\ [][NextMatch]_vars

\* SpecBind: a connected database; execute binds no argument or one, of
\* every kind, to a one-row query whose first column shows the placeholder
\* if it has one, the caller goes on to change or drop its argument object,
\* and operator>> reads the row back into a record of one field per column.
BindQueries ==
  {q \in Queries : q.nrows = 1 /\ q.cols \in {<<"a">>, <<"a", "b">>} /\ q.nparams <= 1}
BindArgSeqs == {<<>>} \cup {<<a>> : a \in ArgVals}
BindShapes ==
  {sh \in Shapes : sh[1].name = "a" /\ (Len(sh) = 1 \/ sh[1].ty = "int")}

InitBind ==
  /\ autoreset \in BOOLEAN
  /\ db_ = 1
  /\ db_sptr_ = 1
  /\ own = [d \in DbIds |-> IF d = 1 THEN 1 ELSE 0]
  /\ conn = "alive"
  /\ dbh = [d \in DbIds |-> IF d = 1 THEN "open" ELSE "none"]
  /\ hs = [h \in StmtIds |-> NoHandle]
  /\ st = NoStmt
  /\ refs = 0
  /\ bufs = [i \in ArgPos |-> NoBuf]
  /\ pc = "idle"
  /\ res = [NoRes EXCEPT !.op = "connect", !.outcome = "returned"]

NextBind ==
  \/ \E q \in BindQueries, args \in BindArgSeqs : op_call(q, args, TRUE)
  \/ \E i \in ArgPos, s \in TextVals : MutateArg(i, s)
  \/ \E i \in ArgPos : DestroyArg(i)
  \/ \E sh \in BindShapes : op_rshift(sh, DefaultRecord(sh), FALSE)
  \/ DestroyStatement

SpecBind == InitBind /\ [][NextBind]_vars

\* SpecCall: a connected database on which execute is called over and over
\* with up to MaxArgs arguments of every kind for queries of up to MaxArgs
\* placeholders, each returned statement being destroyed before the next
\* call.
CallQueries == {q \in Queries : q.cols = <<"a">> /\ q.nrows = 1}

NextCall ==
  \/ \E q \in CallQueries, args \in SeqsUpTo(ArgVals, MaxArgs) : op_call(q, args, TRUE)
  \/ DestroyStatement

SpecCall == InitBind /\ [][NextCall]_vars

\* ------------------------------------------------------------- properties

\* Whether the held statement has a result column of this name.
HasColumn(name) == \E c \in 1..Len(st.cols) : st.cols[c] = name

\* The first (leftmost) column of this name.
FirstColumn(name) ==
  CHOOSE c \in 1..Len(st.cols) :
    st.cols[c] = name /\ \A d \in 1..(c - 1) : st.cols[d] # name

\* What reading column c of row n into a field of type ty gives, the
\* caller's strings being as they are now.
ValueOf(n, c, ty) == read_column(Cell(st, n, c, bufs, <<0, 0, 0>>), ty)

Loops == {"forEach", "append_to"}

C2_StepErrorRaises ==
  (res.op \in Loops /\ res.errSeen) => res.outcome = "threw"

\* C3: after a failed execute no prepared handle exists that no statement
\* wrapper owns (and so nobody will finalize).
C3_FailedExecuteLeavesNoHandle ==
  (res.op = "execute" /\ res.outcome = "threw") =>
    \A h \in StmtIds : hs[h].status = "prepared" => hs[h].wrapped

\* C4: the handle of every statement returned by execute is finalized
\* exactly once: not while a copy of the wrapper is alive (the caller holds
\* it), never twice, and it is finalized once the last copy is gone.
C4_FinalizedExactlyOnce ==
  /\ (st.h = 0) = (refs = 0)
  /\ \A h \in StmtIds :
       hs[h].wrapped =>
         /\ hs[h].fin <= 1
         /\ st.h = h => (refs >= 1 /\ hs[h].fin = 0 /\ hs[h].status = "prepared")
         /\ st.h # h => (hs[h].fin = 1 /\ hs[h].status = "finalized")

\* One of two copies of a statement that has been stepped was destroyed: the
\* handle is still prepared and the other copy holds it.
C4_Witness ==
  /\ res.op = "destroy" /\ st.h # 0 /\ refs = 1 /\ st.cursor # 0
  /\ hs[st.h].status = "prepared" /\ hs[st.h].fin = 0

\* C5: within one row no record field is written more than once, and a
\* field that is written receives the leftmost column of its name.  Stated
\* for rows of no more columns than the record has fields, where every use
\* of filled[] is inside the array.
C5_FieldWrittenOncePerRow ==
  (res.op = "fetchOne" /\ res.outcome = "returned" /\ Len(st.cols) <= Len(res.shape)) =>
    \A k \in 1..Len(res.shape) :
      /\ res.row.w[k] <= 1
      /\ res.row.w[k] >= 1 => res.row.src[k] = FirstColumn(res.shape[k].name)

\* C6: fetchOne whose step yields no row (SQLITE_DONE on an empty or
\* exhausted result, or any other code) fails, whatever the record's shape:
\* it throws and does not touch the record.
C6_FetchOneWithoutRowThrows ==
  (res.op = "fetchOne" /\ res.code # SQLITE_ROW) =>
    /\ res.outcome = "threw"
    /\ res.exc.type = "std::runtime_error"
    /\ res.row = NoRow

\* fetchOne into a record of two fields threw on the SQLITE_DONE of an empty
\* result.
C6_Witness ==
  /\ res.op = "fetchOne" /\ res.code = SQLITE_DONE /\ res.outcome = "threw"
  /\ st.nrows = 0 /\ res.start = 0 /\ Len(res.shape) = 2

\* C7: the failure fetchOne raises for an engine error during the step is a
\* different value from the one it raises for exhaustion without a row.
C7_ErrorDistinctFromNoRow ==
  (res.op = "fetchOne" /\ res.outcome = "threw" /\ res.errSeen) =>
    res.exc # StepException(SQLITE_DONE)

\* Whether a field of type ty reads back an argument v as the type it was
\* bound with.
SameType(ty, v) ==
  \/ v.t = "int" /\ ty \in {"int", "int64"}
  \/ v.t = "real" /\ ty = "double"
  \/ v.t = "text" /\ ty = "text"

\* C8: a field filled from the column that shows a bound argument, read as
\* the argument's type, equals the value passed to execute, whatever the
\* caller did with its argument object since.
C8_BoundValueReadBack ==
  (res.op = "fetchOne" /\ res.outcome = "returned") =>
    \A k \in 1..Len(res.shape) :
      LET c == res.row.src[k]
      IN  (c # 0 /\ c <= Len(st.args) /\ SameType(res.shape[k].ty, st.args[c]))
            => res.row.o[k] = st.args[c]

\* C9: once forEach has run a statement from its start to exhaustion (it
\* visited every row and returned on SQLITE_DONE), a fetchOne on that
\* statement obtains no row: its step does not return SQLITE_ROW.
C9_SinglePass ==
  [][(/\ pc = "idle" /\ res.op = "forEach" /\ res.outcome = "returned"
      /\ res.code = SQLITE_DONE /\ res.start = 0 /\ res.nvisits = st.nrows
      /\ res'.op = "fetchOne")
       => res'.code # SQLITE_ROW]_vars

\* C10: when the row has a column that names no field and fetchOne returns,
\* every field that a column names has received the value of a column of
\* its name.
C10_UnmatchedColumnsIgnored ==
  (/\ res.op = "fetchOne" /\ res.outcome = "returned"
   /\ \E c \in 1..Len(st.cols) : FirstField(res.shape, st.cols[c], 1) = 0) =>
    \A k \in 1..Len(res.shape) :
      HasColumn(res.shape[k].name) =>
        /\ res.row.w[k] >= 1
        /\ \E c \in 1..Len(st.cols) :
             /\ st.cols[c] = res.shape[k].name
             /\ res.row.o[k] = ValueOf(st.cursor, c, res.shape[k].ty)

\* Whether the result columns of the held statement are a permutation of the
\* field names of shape sh (which are distinct).
ColumnsPermuteFields(sh) ==
  /\ Len(st.cols) = Len(sh)
  /\ \A k \in 1..Len(sh) : \E c \in 1..Len(st.cols) : st.cols[c] = sh[k].name
  /\ \A c, d \in 1..Len(st.cols) : c # d => st.cols[c] # st.cols[d]

\* C11: when the columns are a permutation of the record's field names and
\* fetchOne returns, every field holds the value of the column of exactly
\* its name in the fetched row, read as the field's type, whatever the order
\* of the columns and whatever the record held before.
C11_AssignedByNameAnyOrder ==
  (res.op = "fetchOne" /\ res.outcome = "returned" /\ ColumnsPermuteFields(res.shape)) =>
    \A k \in 1..Len(res.shape) :
      /\ res.row.w[k] = 1
      /\ st.cols[res.row.src[k]] = res.shape[k].name
      /\ res.row.o[k] = ValueOf(st.cursor, FirstColumn(res.shape[k].name), res.shape[k].ty)

\* fetchOne returned a record of two fields of different types from a row
\* whose two columns come in the opposite order.
C11_Witness ==
  /\ res.op = "fetchOne" /\ res.outcome = "returned" /\ ColumnsPermuteFields(res.shape)
  /\ Len(res.shape) = 2 /\ res.shape[1].ty # res.shape[2].ty
  /\ st.cols[1] = res.shape[2].name /\ st.cols[2] = res.shape[1].name
  /\ res.row.src = <<2, 1>>
  /\ res.row.o[1] # res.init[1] /\ res.row.o[2] # res.init[2]

\* C12: after a fetchOne that returned, every field whose name is the name
\* of no result column holds exactly the value it held before the call, and
\* was not written.
C12_UnnamedFieldsKeepValue ==
  (res.op = "fetchOne" /\ res.outcome = "returned") =>
    \A k \in 1..Len(res.shape) :
      ~HasColumn(res.shape[k].name) =>
        /\ res.row.o[k] = res.init[k]
        /\ res.row.w[k] = 0

\* fetchOne returned into a record the caller had written before: one field
\* was filled from a column, the other is named by no column and still holds
\* the caller's value, which is not the default.
C12_Witness ==
  /\ res.op = "fetchOne" /\ res.outcome = "returned" /\ Len(res.shape) = 2
  /\ \E k, j \in 1..2 :
       /\ ~HasColumn(res.shape[k].name)
       /\ res.init[k] = MarkedValue(res.shape[k].ty)
       /\ res.row.o[k] = res.init[k]
       /\ res.row.w[j] = 1 /\ res.row.o[j] # res.init[j]
  /\ \E c \in 1..Len(st.cols) : FirstField(res.shape, st.cols[c], 1) = 0

\* The record forEach's visitor receives for row n of the held statement when
\* the reads of filled[] outside its bounds find g.
ForEachRecord(sh, n, g) ==
  row_to_sio(DefaultRecord(sh), sh, [st EXCEPT !.cursor = n], bufs, <<0, 0, 0>>, g).o

\* C13: append_to keeps the elements the sequence held, in place, and
\* appends after them, in result order, the records forEach produces for the
\* rows the engine still delivers: entered with the cursor on row s (0: not
\* started; a halted statement starts over like not started), after j rows
\* the sequence is the old one followed by the records of rows s + 1 .. s + j,
\* and when the loop has returned without an engine error j is N = nrows - s.
C13_AppendToAppendsForEachRows ==
  (res.op = "append_to" /\ res.outcome # "aborted") =>
    LET m == Len(res.vec0)
        s == IF res.start \in 0..st.nrows THEN res.start ELSE 0
    IN  /\ Len(res.vec) = m + res.nvisits
        /\ SubSeq(res.vec, 1, m) = res.vec0
        /\ \A j \in 1..res.nvisits :
             \E g \in Garbage(res.shape, st) :
               res.vec[m + j] = ForEachRecord(res.shape, s + j, g)
        /\ (res.outcome = "returned" /\ ~res.errSeen) => res.nvisits = st.nrows - s

\* append_to has returned from a not-started statement of two rows, the
\* sequence having held one element: it now holds three, the two appended
\* ones differ from each other.
C13_Witness ==
  /\ res.op = "append_to" /\ res.start = 0 /\ res.outcome = "returned" /\ ~res.errSeen
  /\ st.nrows = 2 /\ Len(res.vec0) = 1 /\ Len(res.vec) = 3
  /\ res.vec[1] = res.vec0[1] /\ res.vec[2] # res.vec[3]

\* What execute throws when the engine rejects the SQL text at preparation.
QueryError == Exc("Sqlite error during prepare: ", SQLITE_ERROR)

\* C14: an execute that fails at preparation because the engine rejects the
\* SQL text leaves the connection as it was: db_, db_sptr_ and its use count
\* are the same, the handle is still open, and the engine's statement table
\* is the same (the call left no prepared handle behind).  The execute that
\* follows on the same connection does not fail for any reason of the
\* connection: it returns a statement, or fails only for its own SQL text or
\* its own arguments.
C14_FailedPrepareLeavesConnectionUsable ==
  [][/\ (res'.op = "execute" /\ res'.exc = QueryError) =>
          /\ db_' = db_ /\ db_sptr_' = db_sptr_ /\ own' = own /\ conn' = conn
          /\ dbh' = dbh /\ hs' = hs
          /\ db_' # 0 /\ dbh'[db_'] = "open"
          /\ res'.newh = 0
     /\ (res.op = "execute" /\ res.exc = QueryError /\ res'.op = "execute") =>
          \/ res'.outcome = "returned" /\ hs'[st'.h].status = "prepared" /\ st'.db = db_
          \/ res'.exc = QueryError
          \/ res'.exc = Exc("Sqlite error during binding: ", SQLITE_RANGE)
                /\ Len(res'.args) > res'.nparams]_vars

\* An execute has just failed at preparation on an open connection that had
\* executed and finalized a statement before: the handle is open and owned,
\* and no statement handle is outstanding.
C14_Witness ==
  /\ res.op = "execute" /\ res.outcome = "threw" /\ res.exc = QueryError
  /\ db_ # 0 /\ db_ = db_sptr_ /\ dbh[db_] = "open"
  /\ hs[1].status = "finalized" /\ \A h \in StmtIds : hs[h].status # "prepared"

\* C15: every database handle the engine's open gave out is passed to
\* sqlite3_close_v2 exactly once over the connection's lifetime: never
\* twice, and once the sqlite_database and all its copies are destroyed no
\* handle is left that was not closed.
C15_HandlesClosedExactlyOnce ==
  /\ \A d \in DbIds : dbh[d] # "closed twice"
  /\ (conn = "destroyed" /\ \A d \in DbIds : own[d] = 0) =>
       \A d \in DbIds : dbh[d] \in {"none", "closed", "zombie"}

\* The two state parts of C16: what a returned fetchOne has done, and what
\* a forEach entered on row 1 does.
FetchOneStepsOnce ==
  (res.op = "fetchOne" /\ res.outcome = "returned") =>
    /\ st.cursor \in 1..st.nrows
    /\ res.start \in 0..st.nrows => st.cursor = res.start + 1
    /\ \A k \in 1..Len(res.shape) :
         res.row.w[k] >= 1 =>
           res.row.o[k] = ValueOf(st.cursor, res.row.src[k], res.shape[k].ty)

ForEachFromRowOne ==
  (res.op = "forEach" /\ res.start = 1 /\ st.nrows >= 1) =>
    /\ res.nvisits <= st.nrows - 1
    /\ res.nvisits > 0 =>
         /\ res.last.row = res.nvisits + 1
         /\ \A k \in 1..Len(res.shape) :
              res.last.r.w[k] >= 1 =>
                res.last.r.o[k] =
                  ValueOf(res.nvisits + 1, res.last.r.src[k], res.shape[k].ty)
    /\ (res.outcome = "returned" /\ ~res.errSeen) => res.nvisits = st.nrows - 1

\* C16: a fetchOne that returned has made exactly one step: entered with the
\* cursor on row s (0: not started) it leaves the cursor on row s + 1, a row
\* of the result, and the record is filled from that row; on a not-started
\* statement that is row 1.  A forEach entered with the cursor on row 1 (the
\* state such a fetchOne leaves) visits the rows from 2 on, in order, one
\* visit per row, and all of them up to row N when no engine error ends it.
C16_FetchOneAdvancesOneStep ==
  /\ [](/\ FetchOneStepsOnce
        /\ ForEachFromRowOne)
  /\ [][(res.op = "fetchOne" /\ res.outcome = "returned" /\ res.start = 0
           /\ res'.op = "forEach")
          => res'.start = 1]_vars

\* A forEach entered right on row 1 of a statement of two rows has returned
\* after its one visit, of row 2, which filled a field.
C16_Witness ==
  /\ res.op = "forEach" /\ res.start = 1 /\ res.outcome = "returned" /\ ~res.errSeen
  /\ st.nrows = 2 /\ res.nvisits = 1 /\ res.last.row = 2
  /\ \E k \in 1..Len(res.shape) : res.last.r.w[k] = 1

\* C17: execute called with k arguments makes one bind call per argument,
\* the j-th argument at position j, up to and including the first one the
\* engine rejects.  When it returns, all k were bound: position j holds what
\* binding the j-th argument stores, the placeholders beyond k hold nothing,
\* and the statement has not been stepped.  When a bind is rejected (the
\* position exceeds the placeholder count) the calls stop there and no
\* statement is returned.
C17_BindsLeftToRight ==
  res.op = "execute" =>
    LET k == Len(res.args)
    IN  /\ res.outcome = "returned" =>
             /\ res.nbinds = k
             /\ k <= st.nparams
             /\ \A j \in 1..k : st.binds[j] = bind(res.args[j])
             /\ \A j \in (k + 1)..st.nparams : st.binds[j] = NullV
             /\ st.cursor = 0
             /\ hs[st.h].status = "prepared"
        /\ res.outcome = "threw" =>
             /\ res.exc = Exc("Sqlite error during binding: ", SQLITE_RANGE)
             /\ res.nbinds = res.nparams + 1
             /\ res.nbinds <= k
             /\ st.h = 0

\* execute has returned the statement of a query of two placeholders called
\* with a text and then an int: position 1 holds the text's pointer and
\* size, position 2 the int.
C17_Witness ==
  /\ res.op = "execute" /\ res.outcome = "returned" /\ res.nbinds = 2
  /\ res.args[1].v.t = "text" /\ res.args[2].v.t = "int"
  /\ st.binds = <<PtrV(3), IntV(42)>> /\ st.cursor = 0

\* C18: in every reachable state the database handle of a live statement
\* (one whose wrapper the caller holds, its handle not finalized) has not
\* been released: nobody has passed it to sqlite3_close_v2.
C18_StatementWithinConnection ==
  st.h # 0 => dbh[st.db] \notin {"zombie", "closed", "closed twice"}

\* C19: every index row_to_sio uses on filled[], to read or to write, is in
\* 0 .. (number of fields - 1), whatever the numbers of columns and fields.
C19_FilledIndexInBounds ==
  (res.op = "fetchOne" /\ res.outcome = "returned") =>
    /\ \A i \in res.row.idx : 0 <= i /\ i <= Len(res.shape) - 1
    /\ ~res.row.oobR
    /\ ~res.row.oobW

\* C20: while the sqlite_database is alive, after any connect calls, the
\* handle execute prepares against (db_) is the handle the object owns
\* (db_sptr_), or both are null.
C20_RawHandleIsOwnedHandle ==
  conn = "alive" => db_ = db_sptr_

====
